---- MODULE Spec2Model ----
(***************************************************************************)
(* A model of demo-recorder: the animation helpers of PlaywrightRecorder   *)
(* (highlight, typeAnimated, moveTo, clickAnimated, zoomHighlight), the    *)
(* recording orchestrator record()/cleanup(), and the CLI commands         *)
(* recordCommand, listCommand and createCommand.                           *)
(***************************************************************************)
EXTENDS Integers, Sequences, FiniteSets, TLC

(***************************************************************************)
(* Bounds of the model.                                                    *)
(***************************************************************************)
\* Significand bits of the binary floating-point format that stands for the
\* JavaScript number type (IEEE-754 binary64 has 53; the rounding rule,
\* round to nearest, ties to even, is the same).
Precision == 5
\* Longest text handed to typeAnimated.
MaxTextLen == 2
\* Largest explicit `steps` option handed to moveTo.
MaxSteps == 2
\* Math.random() is drawn from {0/RandDenom, ..., (RandDenom-1)/RandDenom}.
RandDenom == 4
\* The demo script starts a helper that adds an overlay only while fewer than
\* MaxOverlays overlays are in the document, and it types and moves only
\* while none is.
MaxOverlays == 2

(***************************************************************************)
(* Program constants: the defaults of the option records.                  *)
(***************************************************************************)
DefaultDurationMs == 500
DefaultDelay == 50
DefaultVariation == 20
DefaultDuration == 500
DefaultSteps == 20
DefaultHoverDuration == 200
DefaultMoveDuration == 400
DefaultZoomDuration == 600
FocusWait == 100
FadeSettle == 200
MinTypeDelay == 10
DefaultCursor == 100
RippleLife == 400

\* An option the caller left out (options?.x is undefined).
Undefined == -1
\* options?.x ?? dflt
OrDefault(opt, dflt) == IF opt = Undefined THEN dflt ELSE opt

(***************************************************************************)
(* JavaScript numbers.  A number is <<m, e>>, standing for m * 2^e, in     *)
(* normal form: <<0, 0>>, or m odd.  Every arithmetic operation rounds its *)
(* exact result to Precision significand bits, to nearest, ties to even.   *)
(***************************************************************************)
Abs(n) == IF n < 0 THEN -n ELSE n
Min(a, b) == IF a < b THEN a ELSE b

RECURSIVE Norm(_, _)
Norm(m, e) ==
  IF m = 0 THEN <<0, 0>>
  ELSE IF m % 2 = 0 THEN Norm(m \div 2, e + 1)
  ELSE <<m, e>>

\* The number nearest to (n / d) * 2^e, for n >= 0 and d > 0.
RECURSIVE RoundPos(_, _, _)
RoundPos(n, d, e) ==
  IF n = 0 THEN <<0, 0>>
  ELSE IF n < (2 ^ (Precision - 1)) * d THEN RoundPos(2 * n, d, e - 1)
  ELSE IF n >= (2 ^ Precision) * d THEN RoundPos(n, 2 * d, e + 1)
  ELSE LET q == n \div d
           r == n % d
           up == (2 * r > d) \/ (2 * r = d /\ q % 2 = 1)
       IN Norm(IF up THEN q + 1 ELSE q, e)

FNeg(a) == <<-a[1], a[2]>>
FRound(m, e) == IF m < 0 THEN FNeg(RoundPos(-m, 1, e)) ELSE RoundPos(m, 1, e)
FromInt(n) == FRound(n, 0)
FAdd(a, b) ==
  LET e == Min(a[2], b[2])
  IN FRound(a[1] * (2 ^ (a[2] - e)) + b[1] * (2 ^ (b[2] - e)), e)
FSub(a, b) == FAdd(a, FNeg(b))
FMul(a, b) == FRound(a[1] * b[1], a[2] + b[2])
\* a / b for b # 0
FDiv(a, b) ==
  LET q == RoundPos(Abs(a[1]), Abs(b[1]), a[2] - b[2])
  IN IF (a[1] < 0) # (b[1] < 0) THEN FNeg(q) ELSE q
\* Math.pow(a, 3)
FPow3(a) == FRound(a[1] * a[1] * a[1], 3 * a[2])
\* a < b
FLess(a, b) ==
  LET e == Min(a[2], b[2])
  IN a[1] * (2 ^ (a[2] - e)) < b[1] * (2 ^ (b[2] - e))
FLeq(a, b) == a = b \/ FLess(a, b)
FZero == <<0, 0>>
FOne == <<1, 0>>

\* parseFloat(style) || dflt: a zero (or unparsable) coordinate is falsy.
ParseOr(v, dflt) == IF v = FZero THEN FromInt(dflt) ELSE v

\* Ease-out cubic: 1 - Math.pow(1 - progress, 3)
Eased(progress) == FSub(FOne, FPow3(FSub(FOne, progress)))
\* from + (to - from) * eased
Interpolate(from, to, eased) == FAdd(from, FMul(FSub(to, from), eased))

(***************************************************************************)
(* Wait lengths are kept as exact fractions <<num, den>> in lowest terms.  *)
(***************************************************************************)
RECURSIVE Gcd(_, _)
Gcd(a, b) == IF b = 0 THEN a ELSE Gcd(b, a % b)
Ms(n) == <<n, 1>>
Quot(a, b) == LET g == Gcd(a, b) IN <<a \div g, b \div g>>


(***************************************************************************)
(* The page under recording.                                               *)
(***************************************************************************)
\* The selectors a demo script uses.  "#btn" and "#input" match a visible
\* element, "#hidden" matches an element without a bounding box and
\* ".missing" matches no element.  "#input" lies across the left edge of the
\* viewport: the x of its center is 0.
Selectors == {"#btn", "#input", "#hidden", ".missing"}
InitialDom == {"#btn", "#input", "#hidden"}
Boxed == {"#btn", "#input"}
\* the elements whose click loads a new document
Links == {"#btn"}
\* element.boundingBox() of the visible elements
Box(sel) ==
  IF sel = "#btn"
  THEN [x |-> <<1, -1>>, y |-> FromInt(2), width |-> <<9, -3>>, height |-> FromInt(4)]
  ELSE [x |-> FromInt(-8), y |-> FromInt(24), width |-> FromInt(16), height |-> FromInt(8)]
\* box.x + box.width / 2, box.y + box.height / 2
CenterX(box) == FAdd(box.x, FDiv(box.width, FromInt(2)))
CenterY(box) == FAdd(box.y, FDiv(box.height, FromInt(2)))

\* The texts handed to typeAnimated: "", "h", "hi", "hih", ...
Chars == {"h", "i"}
Texts == {[j \in 1..n |-> IF j % 2 = 1 THEN "h" ELSE "i"] : n \in 0..MaxTextLen}
Delays == {Undefined, 0, 9}
Variations == {Undefined, 0, 2}
Durations == {Undefined, 0}
StepsOptions == {Undefined} \cup (1..MaxSteps)
Helpers == {"highlight", "typeAnimated", "moveTo", "clickAnimated", "zoomHighlight"}
\* the lengths a demo script hands to wait(ms)
WaitOptions == {0, 400}

VARIABLES
  pc,         \* where the demo script or the running helper stands
  call,       \* the helper call in progress: its name and arguments
  pageOpen,   \* FALSE once the page was closed or crashed: every page call throws
  dom,        \* the selectors that match an element of the document
  cursor,     \* the #__demo-cursor overlay: whether it exists, style.left, style.top
  mouse,      \* the real pointer position (page.mouse)
  mv,         \* the locals of the running moveTo
  k,          \* typeAnimated: how many characters were typed
  trace,      \* the page calls the running helper has issued, in order
  warnings,   \* logger.warn messages of the running helper call
  consoleWarns, \* console.warn calls inside the page during the call
  created,    \* overlays the running helper call has appended to the page
  raised,     \* an exception left the helper
  overlays,   \* the overlays in the document, each with the time until its removal
  lastMove    \* where the last moveTo that ran all its steps ended, if one did

engineVars == <<pc, call, pageOpen, dom, cursor, mouse, mv, k, trace, warnings,
                consoleWarns, created, raised, overlays, lastMove>>

(***************************************************************************)
(* The command line: one process per command, a file system that stays.    *)
(***************************************************************************)
\* Commands run one after another in the model (each in a process of its own).
MaxRuns == 2
\* The ids of the demo files.
DemoIds == {"a", "b"}

VARIABLES
  cpc,        \* where the running command (or record()) stands
  cmd,        \* the command and its options
  runs,       \* commands started so far
  exitCode,   \* the exit code of the process: 1 once process.exit(1) ran
  out,        \* what the command printed and logged, in order
  faults,     \* the operations of this run that threw (or rejected)
  ffmpeg,     \* whether the ffmpeg executable can be spawned right now
  absent,     \* ffmpeg was unavailable when the conversion would start
  conversions,\* convertToMp4 calls of this run
  browser,    \* PlaywrightRecorder.browser: "null" or "set"
  context,    \* PlaywrightRecorder.context: "null" or "set"
  acquired,   \* the resources record() obtained: "browser", "context"
  closeCalls, \* close() invocations on the browser and on the context
  thrown,     \* the message of the exception on its way out ("" when none)
  result,     \* the RecordingResult of record(), if it returned one
  finalPath,  \* recordCommand's finalPath
  videoDir,   \* the files of <output>/<demo.id>, for each demo id
  demos,      \* the demos directory: id -> "absent", "user" (written by hand), "template"
  todo,       \* listCommand: the demo files still to visit
  visited,    \* listCommand: the demo files visited, in order
  calls       \* the awaited calls of this run that the properties speak about:
              \* the page steps of record() and the spawns of ffmpeg, with their outcome

cliVars == <<cpc, cmd, runs, exitCode, out, faults, ffmpeg, absent, conversions,
             browser, context, acquired, closeCalls, thrown, result, finalPath,
             videoDir, demos, todo, visited, calls>>
vars == <<engineVars, cliVars>>

NoCall == [helper |-> "none", selector |-> "", text |-> <<>>, delay |-> Undefined,
           variation |-> Undefined, durationMs |-> Undefined, duration |-> Undefined,
           steps |-> Undefined, hoverDuration |-> Undefined, moveDuration |-> Undefined]
NoMove == [duration |-> 0, steps |-> 0, targetX |-> FZero, targetY |-> FZero,
           fromX |-> FZero, fromY |-> FZero, i |-> 0, x |-> FZero, y |-> FZero]

Event(op, arg) == [op |-> op, arg |-> arg]
\* no moveTo has moved the cursor in this session
NoMoveYet == [moved |-> FALSE, x |-> FZero, y |-> FZero]
\* a document without the #__demo-cursor element
NoCursor == [exists |-> FALSE, left |-> FZero, top |-> FZero]

\* The state after initFakeCursor: cssText sets left: 0 and top: 0.
EngineInit ==
  /\ pc = "idle"
  /\ call = NoCall
  /\ pageOpen = TRUE
  /\ dom = InitialDom
  /\ cursor = [exists |-> TRUE, left |-> FZero, top |-> FZero]
  /\ mouse = [x |-> FZero, y |-> FZero]
  /\ mv = NoMove
  /\ k = 0
  /\ trace = <<>>
  /\ warnings = <<>>
  /\ consoleWarns = 0
  /\ created = <<>>
  /\ raised = FALSE
  /\ overlays = <<>>
  /\ lastMove = NoMoveYet

\* Variant of Catch: the helper has no catch block and the exception leaves it.
Rethrow(msg) ==
  /\ raised' = TRUE
  /\ pc' = "raised"
  /\ UNCHANGED warnings

\* catch { logger.warn(msg) } of a helper; a moveTo that clickAnimated
\* called returns to clickAnimated.
Catch(msg) ==
  /\ warnings' = Append(warnings, msg)
  /\ pc' = IF pc \in {"mv_query", "mv_box", "mv_pos", "mv_cursor", "mv_mouse", "mv_wait"}
              /\ call.helper = "clickAnimated"
           THEN "ck_hover" ELSE "returned"
  /\ UNCHANGED raised

\* The timers of the page, setTimeout(() => overlay.remove(), ms).  Time is
\* counted in ticks, TickScale ticks to the millisecond, so that every step
\* delay duration / steps is a whole number of ticks.
Lcm(a, b) == (a * b) \div Gcd(a, b)
RECURSIVE LcmUpTo(_)
LcmUpTo(n) == IF n <= 1 THEN 1 ELSE Lcm(n, LcmUpTo(n - 1))
TickScale == Lcm(DefaultSteps, LcmUpTo(MaxSteps))
Ticks(ms) == ms[1] * (TickScale \div ms[2])
Overlay(kind, ms) == [kind |-> kind, rem |-> Ticks(Ms(ms))]
\* t ticks pass on the side of the recorder: a timer that came due before the
\* end of that time has run; a timer that comes due just as the time ends
\* has not run yet, the page runs it on its own (TimerFire).
Elapse(ovs, t) ==
  LET left == [n \in 1..Len(ovs) |-> [ovs[n] EXCEPT !.rem = @ - t]]
  IN SelectSeq(left, LAMBDA o : o.rem >= 0)

\* page.waitForTimeout(ms) of the helper standing at `at`; `next` follows it.
WaitStep(at, ms, next, msg) ==
  /\ pc = at
  /\ IF pageOpen
     THEN /\ trace' = Append(trace, Event("wait", ms))
          /\ overlays' = Elapse(overlays, Ticks(ms))
          /\ pc' = next
          /\ UNCHANGED <<warnings, raised>>
     ELSE /\ Catch(msg)
          /\ UNCHANGED <<trace, overlays>>


(***************************************************************************)
(* The demo script calls a helper (the DemoContext closures of record()).  *)
(***************************************************************************)
callVars == <<trace, warnings, consoleWarns, created, raised, k>>
sessionVars == <<pageOpen, dom, cursor, mouse>>

\* highlight(selector, durationMs = 500)
CallHighlight ==
  /\ pc = "idle"
  /\ Len(overlays) < MaxOverlays
  /\ \E sel \in Selectors, d \in Durations :
       call' = [NoCall EXCEPT !.helper = "highlight", !.selector = sel,
                              !.durationMs = OrDefault(d, DefaultDurationMs)]
  /\ pc' = "hl_evaluate"
  /\ UNCHANGED <<sessionVars, callVars, mv>>
  /\ UNCHANGED overlays
  /\ UNCHANGED lastMove
  /\ UNCHANGED cliVars

\* typeAnimated(selector, text, options?)
CallTypeAnimated ==
  /\ pc = "idle"
  /\ overlays = <<>>
  /\ \E sel \in Selectors, t \in Texts, d \in Delays, v \in Variations :
       call' = [NoCall EXCEPT !.helper = "typeAnimated", !.selector = sel, !.text = t,
                              !.delay = OrDefault(d, DefaultDelay),
                              !.variation = OrDefault(v, DefaultVariation)]
  /\ pc' = "ty_click"
  /\ UNCHANGED <<sessionVars, callVars, mv>>
  /\ UNCHANGED overlays
  /\ UNCHANGED lastMove
  /\ UNCHANGED cliVars

\* moveTo(selector, options?)
CallMoveTo ==
  /\ pc = "idle"
  /\ overlays = <<>>
  /\ \E sel \in Selectors, d \in Durations, n \in StepsOptions :
       /\ call' = [NoCall EXCEPT !.helper = "moveTo", !.selector = sel,
                                 !.duration = d, !.steps = n]
       /\ mv' = [NoMove EXCEPT !.duration = OrDefault(d, DefaultDuration),
                               !.steps = OrDefault(n, DefaultSteps)]
  /\ pc' = "mv_query"
  /\ UNCHANGED <<sessionVars, callVars>>
  /\ UNCHANGED overlays
  /\ UNCHANGED lastMove
  /\ UNCHANGED cliVars

\* clickAnimated(selector, options?): its first statement is
\* this.moveTo(page, selector, { duration: moveDuration })
CallClickAnimated ==
  /\ pc = "idle"
  /\ Len(overlays) < MaxOverlays
  /\ \E sel \in Selectors, h \in Durations, m \in Durations :
       /\ call' = [NoCall EXCEPT !.helper = "clickAnimated", !.selector = sel,
                                 !.hoverDuration = OrDefault(h, DefaultHoverDuration),
                                 !.moveDuration = OrDefault(m, DefaultMoveDuration)]
       /\ mv' = [NoMove EXCEPT !.duration = OrDefault(m, DefaultMoveDuration),
                               !.steps = OrDefault(Undefined, DefaultSteps)]
  /\ pc' = "mv_query"
  /\ UNCHANGED <<sessionVars, callVars>>
  /\ UNCHANGED overlays
  /\ UNCHANGED lastMove
  /\ UNCHANGED cliVars

\* zoomHighlight(selector, options?)
CallZoomHighlight ==
  /\ pc = "idle"
  /\ Len(overlays) < MaxOverlays
  /\ \E sel \in Selectors, d \in Durations :
       call' = [NoCall EXCEPT !.helper = "zoomHighlight", !.selector = sel,
                              !.duration = OrDefault(d, DefaultZoomDuration)]
  /\ pc' = "zm_evaluate"
  /\ UNCHANGED <<sessionVars, callVars, mv>>
  /\ UNCHANGED overlays
  /\ UNCHANGED lastMove
  /\ UNCHANGED cliVars

\* wait(ms): (ms) => page.waitForTimeout(ms)
CallWait ==
  /\ pc = "idle"
  /\ \E ms \in WaitOptions : call' = [NoCall EXCEPT !.helper = "wait", !.durationMs = ms]
  /\ pc' = "w_wait"
  /\ UNCHANGED <<sessionVars, callVars, mv, overlays>>
  /\ UNCHANGED lastMove
  /\ UNCHANGED cliVars

\* hideDevTools()
CallHideDevTools ==
  /\ pc = "idle"
  /\ call' = [NoCall EXCEPT !.helper = "hideDevTools"]
  /\ pc' = "hd_style"
  /\ UNCHANGED <<sessionVars, callVars, mv, overlays>>
  /\ UNCHANGED lastMove
  /\ UNCHANGED cliVars

\* An exception leaves a closure that has no try/catch: demo.run rejects.
Raise ==
  /\ raised' = TRUE
  /\ pc' = "raised"

\* page.waitForTimeout(ms) of wait(ms)
WWait ==
  /\ pc = "w_wait"
  /\ IF pageOpen
     THEN /\ trace' = Append(trace, Event("wait", Ms(call.durationMs)))
          /\ overlays' = Elapse(overlays, Ticks(Ms(call.durationMs)))
          /\ pc' = "returned"
          /\ UNCHANGED raised
     ELSE /\ Raise
          /\ UNCHANGED <<trace, overlays>>
  /\ UNCHANGED <<call, sessionVars, mv, k, warnings, consoleWarns, created>>
  /\ UNCHANGED lastMove
  /\ UNCHANGED cliVars

\* page.addStyleTag({ content }) of hideDevTools()
HdStyle ==
  /\ pc = "hd_style"
  /\ IF pageOpen
     THEN /\ trace' = Append(trace, Event("style", "nextjs"))
          /\ pc' = "returned"
          /\ UNCHANGED raised
     ELSE /\ Raise
          /\ UNCHANGED trace
  /\ UNCHANGED <<call, sessionVars, mv, k, warnings, consoleWarns, created, overlays>>
  /\ UNCHANGED lastMove
  /\ UNCHANGED cliVars

\* The helper has returned: the demo script goes on to its next step.
Resume ==
  /\ pc = "returned"
  /\ pc' = "idle"
  /\ call' = NoCall
  /\ mv' = NoMove
  /\ k' = 0
  /\ trace' = <<>>
  /\ warnings' = <<>>
  /\ consoleWarns' = 0
  /\ created' = <<>>
  /\ UNCHANGED <<sessionVars, raised>>
  /\ UNCHANGED overlays
  /\ UNCHANGED lastMove
  /\ UNCHANGED cliVars

\* The page is closed or crashes: from now on every page call throws.
PageClose ==
  /\ pageOpen
  /\ pageOpen' = FALSE
  /\ UNCHANGED <<pc, call, dom, cursor, mouse, mv, callVars>>
  /\ UNCHANGED overlays
  /\ UNCHANGED lastMove
  /\ UNCHANGED cliVars

\* The page runs a timer that is due: overlay.remove().
TimerFire ==
  /\ pageOpen
  /\ \E n \in 1..Len(overlays) :
       /\ overlays[n].rem = 0
       /\ overlays' = SubSeq(overlays, 1, n - 1) \o SubSeq(overlays, n + 1, Len(overlays))
  /\ UNCHANGED <<pc, call, pageOpen, dom, cursor, mouse, mv, callVars>>
  /\ UNCHANGED lastMove
  /\ UNCHANGED cliVars

(***************************************************************************)
(* highlightElement                                                        *)
(***************************************************************************)
\* page.evaluate: the overlay is appended, or console.warn inside the page
HlEvaluate ==
  /\ pc = "hl_evaluate"
  /\ IF ~pageOpen
     THEN /\ Catch("Failed to highlight element")
          /\ UNCHANGED <<consoleWarns, created, overlays>>
     ELSE /\ IF call.selector \in dom
             THEN /\ created' = Append(created, "highlight")
                  /\ overlays' = Append(overlays,
                                        Overlay("highlight", call.durationMs + FadeSettle))
                  /\ UNCHANGED consoleWarns
             ELSE /\ consoleWarns' = consoleWarns + 1
                  /\ UNCHANGED <<created, overlays>>
          /\ pc' = "hl_wait"
          /\ UNCHANGED <<warnings, raised>>
  /\ UNCHANGED <<call, sessionVars, mv, k, trace>>
  /\ UNCHANGED lastMove
  /\ UNCHANGED cliVars

\* page.waitForTimeout(durationMs + 200)
HlWait ==
  /\ WaitStep("hl_wait", Ms(call.durationMs + FadeSettle), "returned",
              "Failed to highlight element")
  /\ UNCHANGED <<call, sessionVars, mv, k, consoleWarns, created>>
  /\ UNCHANGED lastMove
  /\ UNCHANGED cliVars

(***************************************************************************)
(* zoomHighlight                                                           *)
(***************************************************************************)
ZmEvaluate ==
  /\ pc = "zm_evaluate"
  /\ IF ~pageOpen
     THEN /\ Catch("Failed to zoom highlight element")
          /\ UNCHANGED <<created, overlays>>
     ELSE /\ created' = IF call.selector \in dom THEN Append(created, "zoom") ELSE created
          /\ overlays' = IF call.selector \in dom
                         THEN Append(overlays, Overlay("zoom", call.duration))
                         ELSE overlays
          /\ pc' = "zm_wait"
          /\ UNCHANGED <<warnings, raised>>
  /\ UNCHANGED <<call, sessionVars, mv, k, trace, consoleWarns>>
  /\ UNCHANGED lastMove
  /\ UNCHANGED cliVars

\* page.waitForTimeout(duration)
ZmWait ==
  /\ WaitStep("zm_wait", Ms(call.duration), "returned", "Failed to zoom highlight element")
  /\ UNCHANGED <<call, sessionVars, mv, k, consoleWarns, created>>
  /\ UNCHANGED lastMove
  /\ UNCHANGED cliVars


(***************************************************************************)
(* typeAnimated                                                            *)
(***************************************************************************)
Max(a, b) == IF a > b THEN a ELSE b
\* Math.floor(Math.random() * variation * 2), with Math.random() = j / RandDenom
RandomSpread(variation, j) == (j * variation * 2) \div RandDenom
\* delay + Math.floor(Math.random() * variation * 2) - variation
ActualDelay(delay, variation, j) == delay + RandomSpread(variation, j) - variation
\* Variant of TypeWait: the floor of 10 ms is left out.
TypeWaitNoFloor(delay, variation, j) == ActualDelay(delay, variation, j)

\* Math.max(10, actualDelay)
TypeWait(delay, variation, j) == Max(MinTypeDelay, ActualDelay(delay, variation, j))

\* page.click(selector) waits for a visible element and times out without one
ClickThrows(sel) == ~pageOpen \/ sel \notin Boxed \/ sel \notin dom
\* Variant of Clicked: the click also puts the overlay on the element.
ClickedMovesOverlay(sel) ==
  /\ mouse' = [x |-> CenterX(Box(sel)), y |-> CenterY(Box(sel))]
  /\ cursor' = [cursor EXCEPT !.left = CenterX(Box(sel)), !.top = CenterY(Box(sel))]
  /\ UNCHANGED overlays

\* page.click(selector) on a visible element: the real pointer goes to the
\* element and the click is delivered; the click on a link loads a new
\* document, which has the same elements and none of the overlays.
Clicked(sel) ==
  /\ mouse' = [x |-> CenterX(Box(sel)), y |-> CenterY(Box(sel))]
  /\ IF sel \in Links
     THEN cursor' = NoCursor /\ overlays' = <<>>
     ELSE UNCHANGED <<cursor, overlays>>

\* Variant of TypeLoop: the loop stops one character early.
TypeLoopSkipsLast(n) == IF n + 1 < Len(call.text) THEN "ty_key" ELSE "returned"

\* the loop `for (const char of text)`: the next character, or the end
TypeLoop(n) == IF n < Len(call.text) THEN "ty_key" ELSE "returned"

\* page.click(selector) to focus the element
TyClick ==
  /\ pc = "ty_click"
  /\ IF ClickThrows(call.selector)
     THEN /\ Catch("Failed to type in element")
          /\ UNCHANGED <<trace, cursor, mouse, overlays>>
     ELSE /\ trace' = Append(trace, Event("click", call.selector))
          /\ Clicked(call.selector)
          /\ pc' = "ty_wait100"
          /\ UNCHANGED <<warnings, raised>>
  /\ UNCHANGED <<call, pageOpen, dom, mv, k, consoleWarns, created>>
  /\ UNCHANGED lastMove
  /\ UNCHANGED cliVars

\* page.waitForTimeout(100)
TyWait100 ==
  /\ WaitStep("ty_wait100", Ms(FocusWait), TypeLoop(0), "Failed to type in element")
  /\ UNCHANGED <<call, sessionVars, mv, k, consoleWarns, created>>
  /\ UNCHANGED lastMove
  /\ UNCHANGED cliVars

\* page.keyboard.type(char)
TyKey ==
  /\ pc = "ty_key"
  /\ IF ~pageOpen
     THEN /\ Catch("Failed to type in element")
          /\ UNCHANGED <<trace, k>>
     ELSE /\ trace' = Append(trace, Event("key", call.text[k + 1]))
          /\ k' = k + 1
          /\ pc' = "ty_wait"
          /\ UNCHANGED <<warnings, raised>>
  /\ UNCHANGED <<call, sessionVars, mv, consoleWarns, created>>
  /\ UNCHANGED overlays
  /\ UNCHANGED lastMove
  /\ UNCHANGED cliVars

\* the random draw of this character, then page.waitForTimeout(Math.max(10, actualDelay))
TyWait ==
  /\ \E j \in 0..(RandDenom - 1) :
       WaitStep("ty_wait", Ms(TypeWait(call.delay, call.variation, j)), TypeLoop(k),
                "Failed to type in element")
  /\ UNCHANGED <<call, sessionVars, mv, k, consoleWarns, created>>
  /\ UNCHANGED lastMove
  /\ UNCHANGED cliVars

(***************************************************************************)
(* moveTo and updateCursorPosition                                         *)
(***************************************************************************)
\* Variant of MoveReturn: clickAnimated goes on without its hover wait.
MoveReturnSkipsHover == IF call.helper = "clickAnimated" THEN "ck_ripple" ELSE "returned"

\* where a finished moveTo returns to: clickAnimated, or the demo script
MoveReturn == IF call.helper = "clickAnimated" THEN "ck_hover" ELSE "returned"

\* Variant of MoveLoop: the loop runs while i < steps.
MoveLoopStopsEarly(i, steps) == IF i + 1 < steps THEN "mv_cursor" ELSE MoveReturn

\* for (let i = 1; i <= steps; i++): after step i, the next step or the end
MoveLoop(i, steps) == IF i < steps THEN "mv_cursor" ELSE MoveReturn

\* page.$(selector)
MvQuery ==
  /\ pc = "mv_query"
  /\ IF ~pageOpen
     THEN Catch("Failed to move to element")
     ELSE IF call.selector \notin dom
     THEN /\ warnings' = Append(warnings, "Element not found for moveTo")
          /\ pc' = MoveReturn
          /\ UNCHANGED raised
     ELSE /\ pc' = "mv_box"
          /\ UNCHANGED <<warnings, raised>>
  /\ UNCHANGED <<call, sessionVars, mv, k, trace, consoleWarns, created>>
  /\ UNCHANGED overlays
  /\ UNCHANGED lastMove
  /\ UNCHANGED cliVars

\* element.boundingBox(); the target is the center of the box
MvBox ==
  /\ pc = "mv_box"
  /\ IF ~pageOpen
     THEN /\ Catch("Failed to move to element")
          /\ UNCHANGED mv
     ELSE IF call.selector \notin Boxed
     THEN /\ pc' = MoveReturn
          /\ UNCHANGED <<warnings, raised, mv>>
     ELSE /\ mv' = [mv EXCEPT !.targetX = CenterX(Box(call.selector)),
                              !.targetY = CenterY(Box(call.selector))]
          /\ pc' = "mv_pos"
          /\ UNCHANGED <<warnings, raised>>
  /\ UNCHANGED <<call, sessionVars, k, trace, consoleWarns, created>>
  /\ UNCHANGED overlays
  /\ UNCHANGED lastMove
  /\ UNCHANGED cliVars

\* page.evaluate: the current cursor position, or (100, 100)
MvPos ==
  /\ pc = "mv_pos"
  /\ IF ~pageOpen
     THEN /\ Catch("Failed to move to element")
          /\ UNCHANGED mv
     ELSE /\ mv' = [mv EXCEPT
                      !.fromX = IF cursor.exists THEN ParseOr(cursor.left, DefaultCursor)
                                ELSE FromInt(DefaultCursor),
                      !.fromY = IF cursor.exists THEN ParseOr(cursor.top, DefaultCursor)
                                ELSE FromInt(DefaultCursor),
                      !.i = 1]
          /\ pc' = "mv_cursor"
          /\ UNCHANGED <<warnings, raised>>
  /\ UNCHANGED <<call, sessionVars, k, trace, consoleWarns, created>>
  /\ UNCHANGED overlays
  /\ UNCHANGED lastMove
  /\ UNCHANGED cliVars

\* progress = i / steps
Progress(i, steps) == FDiv(FromInt(i), FromInt(steps))
StepX(m) == Interpolate(m.fromX, m.targetX, Eased(Progress(m.i, m.steps)))
StepY(m) == Interpolate(m.fromY, m.targetY, Eased(Progress(m.i, m.steps)))

\* this.updateCursorPosition(page, x, y)
updateCursorPosition ==
  /\ pc = "mv_cursor"
  /\ IF ~pageOpen
     THEN /\ Catch("Failed to move to element")
          /\ UNCHANGED <<mv, cursor, trace>>
     ELSE /\ mv' = [mv EXCEPT !.x = StepX(mv), !.y = StepY(mv)]
          /\ cursor' = IF cursor.exists
                       THEN [cursor EXCEPT !.left = StepX(mv), !.top = StepY(mv)]
                       ELSE cursor
          /\ trace' = Append(trace, Event("cursor", <<StepX(mv), StepY(mv)>>))
          /\ pc' = "mv_mouse"
          /\ UNCHANGED <<warnings, raised>>
  /\ UNCHANGED <<call, pageOpen, dom, mouse, k, consoleWarns, created>>
  /\ UNCHANGED overlays
  /\ UNCHANGED lastMove
  /\ UNCHANGED cliVars

\* page.mouse.move(x, y)
MvMouse ==
  /\ pc = "mv_mouse"
  /\ IF ~pageOpen
     THEN /\ Catch("Failed to move to element")
          /\ UNCHANGED <<mouse, trace>>
     ELSE /\ mouse' = [x |-> mv.x, y |-> mv.y]
          /\ trace' = Append(trace, Event("mouse", <<mv.x, mv.y>>))
          /\ pc' = "mv_wait"
          /\ UNCHANGED <<warnings, raised>>
  /\ UNCHANGED <<call, pageOpen, dom, cursor, mv, k, consoleWarns, created>>
  /\ UNCHANGED overlays
  /\ UNCHANGED lastMove
  /\ UNCHANGED cliVars

\* page.waitForTimeout(stepDelay), then i++
MvWait ==
  /\ WaitStep("mv_wait", Quot(mv.duration, mv.steps),
              MoveLoop(mv.i, mv.steps),
              "Failed to move to element")
  /\ mv' = IF pageOpen THEN [mv EXCEPT !.i = mv.i + 1] ELSE mv
  /\ lastMove' = IF pageOpen /\ mv.i >= mv.steps
                 THEN [moved |-> TRUE, x |-> mv.x, y |-> mv.y]
                 ELSE lastMove
  /\ UNCHANGED <<call, sessionVars, k, consoleWarns, created>>
  /\ UNCHANGED cliVars

(***************************************************************************)
(* clickAnimated, after its moveTo                                         *)
(***************************************************************************)
\* page.waitForTimeout(hoverDuration)
CkHover ==
  /\ WaitStep("ck_hover", Ms(call.hoverDuration), "ck_ripple", "Failed to click element")
  /\ UNCHANGED <<call, sessionVars, mv, k, consoleWarns, created>>
  /\ UNCHANGED lastMove
  /\ UNCHANGED cliVars

\* page.evaluate: the ripple overlay
CkRipple ==
  /\ pc = "ck_ripple"
  /\ IF ~pageOpen
     THEN /\ Catch("Failed to click element")
          /\ UNCHANGED <<created, trace, overlays>>
     ELSE /\ created' = IF call.selector \in dom THEN Append(created, "ripple") ELSE created
          /\ overlays' = IF call.selector \in dom
                         THEN Append(overlays, Overlay("ripple", RippleLife))
                         ELSE overlays
          /\ trace' = IF call.selector \in dom
                      THEN Append(trace, Event("ripple", call.selector)) ELSE trace
          /\ pc' = "ck_click"
          /\ UNCHANGED <<warnings, raised>>
  /\ UNCHANGED <<call, sessionVars, mv, k, consoleWarns>>
  /\ UNCHANGED lastMove
  /\ UNCHANGED cliVars

\* page.click(selector)
CkClick ==
  /\ pc = "ck_click"
  /\ IF ClickThrows(call.selector)
     THEN /\ Catch("Failed to click element")
          /\ UNCHANGED <<trace, cursor, mouse, overlays>>
     ELSE /\ trace' = Append(trace, Event("click", call.selector))
          /\ Clicked(call.selector)
          /\ pc' = "returned"
          /\ UNCHANGED <<warnings, raised>>
  /\ UNCHANGED <<call, pageOpen, dom, mv, k, consoleWarns, created>>
  /\ UNCHANGED lastMove
  /\ UNCHANGED cliVars

EngineNext ==
  \/ CallHighlight \/ CallTypeAnimated \/ CallMoveTo \/ CallClickAnimated
  \/ CallZoomHighlight \/ CallWait \/ CallHideDevTools \/ Resume \/ PageClose
  \/ TimerFire \/ WWait \/ HdStyle
  \/ HlEvaluate \/ HlWait \/ ZmEvaluate \/ ZmWait
  \/ TyClick \/ TyWait100 \/ TyKey \/ TyWait
  \/ MvQuery \/ MvBox \/ MvPos \/ updateCursorPosition \/ MvMouse \/ MvWait
  \/ CkHover \/ CkRipple \/ CkClick



(***************************************************************************)
(* The command line: files, results and the state of a run.                *)
(***************************************************************************)
\* an awaited call and whether it succeeded
Called(op, ok) == [op |-> op, ok |-> ok]
\* A file of the video directory: a base name and an extension.
File(base, ext) == [base |-> base, ext |-> ext]
NoFile == File(0, "")
NoResult == [ok |-> FALSE, videoPath |-> NoFile]
NoCmd == [name |-> "none", convert |-> FALSE, id |-> "", record |-> FALSE,
          nested |-> FALSE]
NoCloses == [browser |-> 0, context |-> 0]

\* f.endsWith('.webm')
EndsWithWebm(f) == f.ext = "webm"
\* inputPath.replace(/\.webm$/, '.mp4')
ReplaceWebmByMp4(f) == IF f.ext = "webm" THEN File(f.base, "mp4") ELSE f

ProcessInit ==
  /\ cmd = NoCmd
  /\ exitCode = 0
  /\ out = <<>>
  /\ faults = {}
  /\ absent = FALSE
  /\ conversions = 0
  /\ browser = "null"
  /\ context = "null"
  /\ acquired = {}
  /\ closeCalls = NoCloses
  /\ thrown = ""
  /\ result = NoResult
  /\ finalPath = NoFile
  /\ todo = <<>>
  /\ visited = <<>>
  /\ calls = <<>>

CliInit ==
  /\ cpc = "shell"
  /\ runs = 0
  /\ ffmpeg \in BOOLEAN
  /\ videoDir = [id \in DemoIds |-> {}]
  /\ demos \in [DemoIds -> {"absent", "user"}]
  /\ ProcessInit

\* ffmpeg is installed, removed, or its spawn starts or stops failing.
EnvFfmpegChange ==
  /\ cpc # "shell"
  /\ ffmpeg' = ~ffmpeg
  /\ UNCHANGED <<cpc, cmd, runs, exitCode, out, faults, absent, conversions, browser,
                 context, acquired, closeCalls, thrown, result, finalPath, videoDir,
                 demos, todo, visited>>
  /\ UNCHANGED calls
  /\ UNCHANGED engineVars

\* process.exit(1)
Exit1 == exitCode' = 1 /\ cpc' = "exited"
\* the command's promise resolves: the process ends with exit code 0
Exit0 == cpc' = "exited" /\ UNCHANGED exitCode

\* The process is gone; the shell may start the next command.
NextRun ==
  /\ cpc = "exited"
  /\ cpc' = "shell"
  /\ cmd' = NoCmd /\ exitCode' = 0 /\ out' = <<>> /\ faults' = {} /\ absent' = FALSE
  /\ conversions' = 0 /\ browser' = "null" /\ context' = "null" /\ acquired' = {}
  /\ closeCalls' = NoCloses /\ thrown' = "" /\ result' = NoResult
  /\ finalPath' = NoFile /\ todo' = <<>> /\ visited' = <<>> /\ calls' = <<>>
  /\ UNCHANGED <<runs, ffmpeg, videoDir, demos>>
  /\ UNCHANGED engineVars


procVars == <<cmd, exitCode, out, faults, absent, conversions, finalPath>>
recVars == <<browser, context, acquired, closeCalls, thrown, result>>
fsVars == <<videoDir, demos>>
listVars == <<todo, visited>>

Say(kind, text) == out' = Append(out, Event(kind, text))

(***************************************************************************)
(* recordCommand                                                           *)
(***************************************************************************)
\* demo-recorder record <demo-file> [--no-convert]
StartRecord ==
  /\ cpc = "shell"
  /\ runs < MaxRuns
  /\ runs' = runs + 1
  /\ \E id \in DemoIds, convert \in BOOLEAN :
       cmd' = [NoCmd EXCEPT !.name = "record", !.id = id, !.convert = convert]
  /\ cpc' = "rc_load"
  /\ UNCHANGED <<exitCode, out, faults, absent, conversions, finalPath, recVars, fsVars,
                 listVars, ffmpeg>>
  /\ UNCHANGED calls
  /\ UNCHANGED engineVars

\* Variant of AfterLoad: ffmpeg is looked for whatever the options say.
AfterLoadAlwaysChecks(convert) == "rc_check1"

\* if (options.convert) { checkFfmpegInstalled() ... }, then the recording
AfterLoad(convert) == IF convert THEN "rc_check1" ELSE "r_mkdir"

\* loadDemo(path): the file is imported and validated, or the call rejects
loadDemo(id, ok) == ok => demos[id] # "absent"

\* const demo = await loadDemo(demoPath)
RcLoad ==
  /\ cpc = "rc_load"
  /\ \E ok \in BOOLEAN :
       /\ loadDemo(cmd.id, ok)
       /\ IF ok
          THEN /\ Say("succeed", "Loaded demo")
               /\ cpc' = AfterLoad(cmd.convert)
               /\ UNCHANGED <<faults, thrown>>
          ELSE /\ faults' = faults \cup {"loadDemo"}
               /\ thrown' = "Invalid demo definition"
               /\ cpc' = "rc_catch"
               /\ UNCHANGED out
  /\ UNCHANGED <<cmd, exitCode, absent, conversions, finalPath, browser, context,
                 acquired, closeCalls, result, fsVars, listVars, runs, ffmpeg>>
  /\ UNCHANGED calls
  /\ UNCHANGED engineVars

\* checkFfmpegInstalled(): `ffmpeg -version` was spawned and exited with 0
checkFfmpegInstalled == ffmpeg

\* the check before the recording: spinner.warn when ffmpeg is not there
RcCheck1 ==
  /\ cpc = "rc_check1"
  /\ calls' = Append(calls, Called("checkFfmpegInstalled", ffmpeg))
  /\ IF checkFfmpegInstalled
     THEN UNCHANGED out
     ELSE Say("warn", "FFmpeg not found - video will be saved as WebM")
  /\ cpc' = "r_mkdir"
  /\ UNCHANGED <<cmd, exitCode, faults, absent, conversions, finalPath, recVars, fsVars,
                 listVars, runs, ffmpeg>>
  /\ UNCHANGED engineVars

\* Variant of InitialFinalPath: the .mp4 name is taken before ffmpeg is checked.
EagerMp4Path(videoPath) == ReplaceWebmByMp4(videoPath)

\* let finalPath = videoPath
InitialFinalPath(videoPath) == videoPath

\* record() has returned or rejected
RcAfterRecord ==
  /\ cpc = "rc_after_record"
  /\ IF thrown # ""
     THEN /\ cpc' = "rc_catch"
          /\ UNCHANGED <<out, finalPath>>
     ELSE /\ Say("succeed", "Recording complete")
          /\ finalPath' = InitialFinalPath(result.videoPath)
          /\ cpc' = IF cmd.convert THEN "rc_check2" ELSE "rc_report"
  /\ UNCHANGED <<cmd, exitCode, faults, absent, conversions, recVars, fsVars, listVars,
                 runs, ffmpeg>>
  /\ UNCHANGED calls
  /\ UNCHANGED engineVars

\* the check after the recording: convert only when ffmpeg is there
RcCheck2 ==
  /\ cpc = "rc_check2"
  /\ calls' = Append(calls, Called("checkFfmpegInstalled", ffmpeg))
  /\ IF checkFfmpegInstalled
     THEN /\ Say("start", "Converting to MP4...")
          /\ conversions' = conversions + 1
          /\ cpc' = "cv_spawn"
          /\ UNCHANGED absent
     ELSE /\ absent' = TRUE
          /\ cpc' = "rc_report"
          /\ UNCHANGED <<out, conversions>>
  /\ UNCHANGED <<cmd, exitCode, faults, finalPath, recVars, fsVars, listVars, runs, ffmpeg>>
  /\ UNCHANGED engineVars

\* convertToMp4: spawn('ffmpeg', args); ENOENT rejects with "FFmpeg not found."
CvSpawn ==
  /\ cpc = "cv_spawn"
  /\ calls' = Append(calls, Called("spawn ffmpeg", ffmpeg))
  /\ IF ffmpeg
     THEN /\ cpc' = "cv_close"
          /\ UNCHANGED <<faults, thrown, absent>>
     ELSE /\ faults' = faults \cup {"convertToMp4"}
          /\ thrown' = "FFmpeg not found. Please install FFmpeg"
          /\ absent' = TRUE
          /\ cpc' = "rc_catch"
  /\ UNCHANGED <<cmd, exitCode, out, conversions, finalPath, browser, context, acquired,
                 closeCalls, result, fsVars, listVars, runs, ffmpeg>>
  /\ UNCHANGED engineVars

\* convertToMp4: the ffmpeg process closes with its exit code
CvClose ==
  /\ cpc = "cv_close"
  /\ \E code \in {0, 1} :
       IF code = 0
       THEN /\ videoDir' = [videoDir EXCEPT ![cmd.id] = @ \cup {ReplaceWebmByMp4(result.videoPath)}]
            /\ finalPath' = ReplaceWebmByMp4(result.videoPath)
            /\ Say("succeed", "Conversion complete")
            /\ cpc' = "rc_report"
            /\ UNCHANGED <<faults, thrown>>
       ELSE /\ faults' = faults \cup {"convertToMp4"}
            /\ thrown' = "FFmpeg exited with code"
            /\ cpc' = "rc_catch"
            /\ UNCHANGED <<videoDir, finalPath, out>>
  /\ UNCHANGED <<cmd, exitCode, absent, conversions, browser, context, acquired,
                 closeCalls, result, demos, listVars, runs, ffmpeg>>
  /\ UNCHANGED calls
  /\ UNCHANGED engineVars

\* console.log('Recording saved!'); console.log(`File: ${finalPath}`)
RcReport ==
  /\ cpc = "rc_report"
  /\ out' = out \o <<Event("log", "Recording saved!"), Event("file", finalPath)>>
  /\ Exit0
  /\ UNCHANGED <<cmd, faults, absent, conversions, finalPath, recVars, fsVars, listVars,
                 runs, ffmpeg>>
  /\ UNCHANGED calls
  /\ UNCHANGED engineVars

\* Variant of RcCatch: the error is logged and process.exit(1) is left out.
RcCatchNoExit ==
  /\ cpc = "rc_catch"
  /\ out' = out \o <<Event("fail", "Recording failed"), Event("error", thrown)>>
  /\ Exit0
  /\ UNCHANGED <<cmd, faults, absent, conversions, finalPath, recVars, fsVars, listVars,
                 runs, ffmpeg>>
  /\ UNCHANGED calls
  /\ UNCHANGED engineVars

\* catch (error) { spinner.fail; logger.error(message); process.exit(1) }
RcCatch ==
  /\ cpc = "rc_catch"
  /\ out' = out \o <<Event("fail", "Recording failed"), Event("error", thrown)>>
  /\ Exit1
  /\ UNCHANGED <<cmd, faults, absent, conversions, finalPath, recVars, fsVars, listVars,
                 runs, ffmpeg>>
  /\ UNCHANGED calls
  /\ UNCHANGED engineVars


(***************************************************************************)
(* PlaywrightRecorder.record and cleanup                                   *)
(***************************************************************************)
\* Variant of Throw: the exception leaves record() without running finally.
ThrowPastFinally(op) ==
  /\ faults' = faults \cup {op}
  /\ thrown' = op
  /\ cpc' = "rc_after_record"

\* Variant of Throw: the finally block swallows the exception.
ThrowSwallowed(op) ==
  /\ faults' = faults \cup {op}
  /\ UNCHANGED thrown
  /\ cpc' = "r_cleanup_context"

\* An exception inside try { ... } finally { await this.cleanup() }
Throw(op) ==
  /\ faults' = faults \cup {op}
  /\ thrown' = op
  /\ cpc' = "r_cleanup_context"

\* await fs.mkdir(videoDir, { recursive: true }), before the try block
RMkdir ==
  /\ cpc = "r_mkdir"
  /\ \E ok \in BOOLEAN :
       IF ok
       THEN /\ cpc' = "r_launch"
            /\ UNCHANGED <<faults, thrown>>
       ELSE /\ faults' = faults \cup {"mkdir"}
            /\ thrown' = "mkdir"
            /\ cpc' = "rc_after_record"
  /\ UNCHANGED <<cmd, exitCode, out, absent, conversions, finalPath, browser, context,
                 acquired, closeCalls, result, fsVars, listVars, runs, ffmpeg>>
  /\ UNCHANGED calls
  /\ UNCHANGED engineVars

\* this.browser = await chromium.launch(...)
RLaunch ==
  /\ cpc = "r_launch"
  /\ \E ok \in BOOLEAN :
       IF ok
       THEN /\ browser' = "set"
            /\ acquired' = acquired \cup {"browser"}
            /\ cpc' = "r_newContext"
            /\ UNCHANGED <<faults, thrown>>
       ELSE /\ Throw("launch")
            /\ UNCHANGED <<browser, acquired>>
  /\ UNCHANGED <<cmd, exitCode, out, absent, conversions, finalPath, context,
                 closeCalls, result, fsVars, listVars, runs, ffmpeg>>
  /\ UNCHANGED calls
  /\ UNCHANGED engineVars

\* this.context = await this.browser.newContext(...)
RNewContext ==
  /\ cpc = "r_newContext"
  /\ \E ok \in BOOLEAN :
       IF ok
       THEN /\ context' = "set"
            /\ acquired' = acquired \cup {"context"}
            /\ cpc' = "r_newPage"
            /\ UNCHANGED <<faults, thrown>>
       ELSE /\ Throw("newContext")
            /\ UNCHANGED <<context, acquired>>
  /\ UNCHANGED <<cmd, exitCode, out, absent, conversions, finalPath, browser,
                 closeCalls, result, fsVars, listVars, runs, ffmpeg>>
  /\ UNCHANGED calls
  /\ UNCHANGED engineVars

\* One awaited step of the try block that acquires nothing: it succeeds and
\* record() goes on to `next`, or it throws.
PageStep(at, next) ==
  /\ cpc = "r_" \o at
  /\ \E ok \in BOOLEAN :
       /\ calls' = Append(calls, Called(at, ok))
       /\ IF ok
          THEN /\ cpc' = "r_" \o next
               /\ UNCHANGED <<faults, thrown>>
          ELSE Throw(at)
  /\ UNCHANGED <<cmd, exitCode, out, absent, conversions, finalPath, browser, context,
                 acquired, closeCalls, result, fsVars, listVars, runs, ffmpeg>>
  /\ UNCHANGED engineVars

\* const page = await this.context.newPage()
RNewPage == PageStep("newPage", "goto")
\* await page.goto(demo.url, { waitUntil: 'networkidle' })
RGoto == PageStep("goto", "hideDevTools")
\* Variant of RHideDevTools: record() goes on to the demo without the cursor.
RHideDevToolsThenRun == PageStep("hideDevTools", "run")

\* await this.hideDevTools(page)
RHideDevTools == PageStep("hideDevTools", "initFakeCursor")
\* await this.initFakeCursor(page)
RInitFakeCursor == PageStep("initFakeCursor", "run")
\* await demo.run(demoContext)
RRun == PageStep("run", "finalWait")
\* await page.waitForTimeout(500)
RFinalWait == PageStep("finalWait", "contextClose")

\* Variant of ContextAfterClose: the field keeps the closed context.
ContextKeptAfterClose(c) == c

\* this.context = null, after the awaited close() of the try block
ContextAfterClose(c) == "null"

\* await this.context.close(); this.context = null.  Closing the context
\* finalizes the video: the file <random name>.webm appears in videoDir.
RContextClose ==
  /\ cpc = "r_contextClose"
  /\ closeCalls' = [closeCalls EXCEPT !.context = @ + 1]
  /\ \E ok \in BOOLEAN, written \in BOOLEAN :
       /\ calls' = Append(calls, Called("context.close", ok))
       /\ IF ok
          THEN /\ context' = ContextAfterClose(context)
               /\ videoDir' = IF written
                               THEN [videoDir EXCEPT
                                       ![cmd.id] = @ \cup {File(runs, "webm")}]
                               ELSE videoDir
               /\ cpc' = "r_find"
               /\ UNCHANGED <<faults, thrown>>
          ELSE /\ Throw("context.close")
               /\ UNCHANGED <<context, videoDir>>
  /\ UNCHANGED <<cmd, exitCode, out, absent, conversions, finalPath, browser, acquired,
                 result, demos, listVars, runs, ffmpeg>>
  /\ UNCHANGED engineVars

\* findRecordedVideo(videoDir): the first entry of readdir that ends with
\* .webm (readdir's order is the file system's), or an exception
findRecordedVideo ==
  /\ cpc = "r_find"
  /\ LET webm == {f \in videoDir[cmd.id] : EndsWithWebm(f)}
     IN /\ calls' = Append(calls, Called("findRecordedVideo", webm # {}))
        /\ IF webm = {}
           THEN /\ Throw("No video file found")
                /\ UNCHANGED result
           ELSE /\ \E f \in webm : result' = [ok |-> TRUE, videoPath |-> f]
                /\ cpc' = "r_cleanup_context"
                /\ UNCHANGED <<faults, thrown>>
  /\ UNCHANGED <<cmd, exitCode, out, absent, conversions, finalPath, browser, context,
                 acquired, closeCalls, fsVars, listVars, runs, ffmpeg>>
  /\ UNCHANGED engineVars

\* cleanup(), first half: if (this.context) { try close catch {}; this.context = null }
CleanupContext ==
  /\ cpc = "r_cleanup_context"
  /\ IF context # "null"
     THEN /\ closeCalls' = [closeCalls EXCEPT !.context = @ + 1]
          /\ context' = "null"
          /\ \E ok \in BOOLEAN :
               /\ calls' = Append(calls, Called("context.close", ok))
               /\ faults' = IF ok THEN faults ELSE faults \cup {"cleanup.close"}
     ELSE UNCHANGED <<closeCalls, context, faults, calls>>
  /\ cpc' = "r_cleanup_browser"
  /\ UNCHANGED <<cmd, exitCode, out, absent, conversions, finalPath, browser, acquired,
                 thrown, result, fsVars, listVars, runs, ffmpeg>>
  /\ UNCHANGED engineVars

\* cleanup(), second half: if (this.browser) { try close catch {}; this.browser = null }
\* and record() returns its result or rethrows
CleanupBrowser ==
  /\ cpc = "r_cleanup_browser"
  /\ IF browser # "null"
     THEN /\ closeCalls' = [closeCalls EXCEPT !.browser = @ + 1]
          /\ browser' = "null"
          /\ \E ok \in BOOLEAN :
               /\ calls' = Append(calls, Called("browser.close", ok))
               /\ faults' = IF ok THEN faults ELSE faults \cup {"cleanup.close"}
     ELSE UNCHANGED <<closeCalls, browser, faults, calls>>
  /\ cpc' = "rc_after_record"
  /\ UNCHANGED <<cmd, exitCode, out, absent, conversions, finalPath, context, acquired,
                 thrown, result, fsVars, listVars, runs, ffmpeg>>
  /\ UNCHANGED engineVars


(***************************************************************************)
(* listCommand                                                             *)
(***************************************************************************)
\* demo-recorder list
StartList ==
  /\ cpc = "shell"
  /\ runs < MaxRuns
  /\ runs' = runs + 1
  /\ cmd' = [NoCmd EXCEPT !.name = "list"]
  /\ cpc' = "lc_list"
  /\ UNCHANGED <<exitCode, out, faults, absent, conversions, finalPath, recVars, fsVars,
                 listVars, ffmpeg>>
  /\ UNCHANGED calls
  /\ UNCHANGED engineVars

\* listDemos(dir): the demo files of the directory, in the order it finds them
listDemos(files) ==
  /\ files \in UNION {[1..n -> DemoIds] : n \in 0..Cardinality(DemoIds)}
  /\ {files[n] : n \in 1..Len(files)} = {id \in DemoIds : demos[id] # "absent"}
  /\ \A m, n \in 1..Len(files) : files[m] = files[n] => m = n

\* const demoFiles = await listDemos(demosDir); nothing to list ends the command
LcList ==
  /\ cpc = "lc_list"
  /\ \E ok \in BOOLEAN :
       IF ok
       THEN /\ \E files \in UNION {[1..n -> DemoIds] : n \in 0..Cardinality(DemoIds)} :
                 /\ listDemos(files)
                 /\ todo' = files
                 /\ IF files = <<>>
                    THEN Say("info", "No demo files found") /\ Exit0
                    ELSE Say("succeed", "Found demo file(s)") /\ cpc' = "lc_visit"
                         /\ UNCHANGED exitCode
            /\ UNCHANGED <<faults, thrown>>
       ELSE /\ faults' = faults \cup {"listDemos"}
            /\ thrown' = "listDemos"
            /\ cpc' = "lc_catch"
            /\ UNCHANGED <<todo, out, exitCode>>
  /\ UNCHANGED <<cmd, absent, conversions, finalPath, browser, context, acquired,
                 closeCalls, result, fsVars, visited, runs, ffmpeg>>
  /\ UNCHANGED calls
  /\ UNCHANGED engineVars

\* Variant of LcVisit: a demo that fails to load ends the loop in the outer
\* catch block.
LcVisitStopsOnError ==
  /\ cpc = "lc_visit"
  /\ todo # <<>>
  /\ \E ok \in BOOLEAN :
       /\ loadDemo(Head(todo), ok)
       /\ IF ok
          THEN /\ Say("demo", Head(todo))
               /\ visited' = Append(visited, Head(todo))
               /\ todo' = Tail(todo)
               /\ IF Tail(todo) = <<>> THEN Exit0 ELSE UNCHANGED <<cpc, exitCode>>
               /\ UNCHANGED <<faults, thrown>>
          ELSE /\ faults' = faults \cup {"list.loadDemo"}
               /\ thrown' = "Invalid demo definition"
               /\ cpc' = "lc_catch"
               /\ UNCHANGED <<out, visited, todo, exitCode>>
  /\ UNCHANGED <<cmd, absent, conversions, finalPath, browser, context, acquired,
                 closeCalls, result, fsVars, runs, ffmpeg>>
  /\ UNCHANGED calls
  /\ UNCHANGED engineVars

\* one turn of `for (const file of demoFiles)`: the demo is printed, or its error
LcVisit ==
  /\ cpc = "lc_visit"
  /\ todo # <<>>
  /\ \E ok \in BOOLEAN :
       /\ loadDemo(Head(todo), ok)
       /\ IF ok
          THEN Say("demo", Head(todo)) /\ UNCHANGED faults
          ELSE Say("demo error", Head(todo)) /\ faults' = faults \cup {"list.loadDemo"}
  /\ visited' = Append(visited, Head(todo))
  /\ todo' = Tail(todo)
  /\ IF Tail(todo) = <<>> THEN Exit0 ELSE UNCHANGED <<cpc, exitCode>>
  /\ UNCHANGED <<cmd, absent, conversions, finalPath, recVars, fsVars, runs, ffmpeg>>
  /\ UNCHANGED calls
  /\ UNCHANGED engineVars

\* catch (error) { spinner.fail; logger.error(message); process.exit(1) }
LcCatch ==
  /\ cpc = "lc_catch"
  /\ out' = out \o <<Event("fail", "Failed to list demos"), Event("error", thrown)>>
  /\ Exit1
  /\ UNCHANGED <<cmd, faults, absent, conversions, finalPath, recVars, fsVars, listVars,
                 runs, ffmpeg>>
  /\ UNCHANGED calls
  /\ UNCHANGED engineVars

(***************************************************************************)
(* createCommand                                                           *)
(***************************************************************************)
\* demo-recorder create <id> --url <url> [--record]
StartCreate ==
  /\ cpc = "shell"
  /\ runs < MaxRuns
  /\ runs' = runs + 1
  /\ \E id \in DemoIds, rec \in BOOLEAN :
       cmd' = [NoCmd EXCEPT !.name = "create", !.id = id, !.record = rec]
  /\ cpc' = "cc_mkdir"
  /\ UNCHANGED <<exitCode, out, faults, absent, conversions, finalPath, recVars, fsVars,
                 listVars, ffmpeg>>
  /\ UNCHANGED calls
  /\ UNCHANGED engineVars

\* await fs.mkdir(demosDir, { recursive: true })
CcMkdir ==
  /\ cpc = "cc_mkdir"
  /\ \E ok \in BOOLEAN :
       IF ok
       THEN cpc' = "cc_access" /\ UNCHANGED <<faults, thrown>>
       ELSE /\ faults' = faults \cup {"mkdir"}
            /\ thrown' = "mkdir"
            /\ cpc' = "cc_catch"
  /\ UNCHANGED <<cmd, exitCode, out, absent, conversions, finalPath, browser, context,
                 acquired, closeCalls, result, fsVars, listVars, runs, ffmpeg>>
  /\ UNCHANGED calls
  /\ UNCHANGED engineVars

\* Variant of CcAccess: the command goes on to write whether or not the file
\* is there.
CcAccessIgnoresExisting ==
  /\ cpc = "cc_access"
  /\ cpc' = "cc_write"
  /\ UNCHANGED <<out, faults, exitCode>>
  /\ UNCHANGED <<cmd, absent, conversions, finalPath, recVars, fsVars, listVars, runs,
                 ffmpeg>>
  /\ UNCHANGED calls
  /\ UNCHANGED engineVars

\* try { await fs.access(filepath); spinner.fail(...); process.exit(1) } catch {}
CcAccess ==
  /\ cpc = "cc_access"
  /\ IF demos[cmd.id] # "absent"
     THEN /\ Say("fail", "Demo file already exists")
          /\ faults' = faults \cup {"exists"}
          /\ Exit1
     ELSE /\ cpc' = "cc_write"
          /\ UNCHANGED <<out, faults, exitCode>>
  /\ UNCHANGED <<cmd, absent, conversions, finalPath, recVars, fsVars, listVars, runs,
                 ffmpeg>>
  /\ UNCHANGED calls
  /\ UNCHANGED engineVars

\* await fs.writeFile(filepath, template); with --record, recordCommand(filepath,
\* { output, convert: true, headed }) follows
CcWrite ==
  /\ cpc = "cc_write"
  /\ \E ok \in BOOLEAN :
       IF ok
       THEN /\ demos' = [demos EXCEPT ![cmd.id] = "template"]
            /\ Say("succeed", "Created demo")
            /\ IF cmd.record
               THEN /\ cmd' = [cmd EXCEPT !.nested = TRUE, !.convert = TRUE]
                    /\ cpc' = "rc_load"
                    /\ UNCHANGED exitCode
               ELSE Exit0 /\ UNCHANGED cmd
            /\ UNCHANGED <<faults, thrown>>
       ELSE /\ faults' = faults \cup {"writeFile"}
            /\ thrown' = "writeFile"
            /\ cpc' = "cc_catch"
            /\ UNCHANGED <<demos, out, cmd, exitCode>>
  /\ UNCHANGED <<absent, conversions, finalPath, browser, context, acquired, closeCalls,
                 result, videoDir, listVars, runs, ffmpeg>>
  /\ UNCHANGED calls
  /\ UNCHANGED engineVars

\* catch (error) { spinner.fail; logger.error(message); process.exit(1) }
CcCatch ==
  /\ cpc = "cc_catch"
  /\ out' = out \o <<Event("fail", "Failed to create demo"), Event("error", thrown)>>
  /\ Exit1
  /\ UNCHANGED <<cmd, faults, absent, conversions, finalPath, recVars, fsVars, listVars,
                 runs, ffmpeg>>
  /\ UNCHANGED calls
  /\ UNCHANGED engineVars

(***************************************************************************)
(* The specifications.                                                     *)
(***************************************************************************)
CliNext ==
  \/ StartRecord \/ RcLoad \/ RcCheck1 \/ RcAfterRecord \/ RcCheck2 \/ CvSpawn
  \/ CvClose \/ RcReport \/ RcCatch
  \/ RMkdir \/ RLaunch \/ RNewContext \/ RNewPage \/ RGoto \/ RHideDevTools
  \/ RInitFakeCursor \/ RRun \/ RFinalWait \/ RContextClose \/ findRecordedVideo
  \/ CleanupContext \/ CleanupBrowser
  \/ StartList \/ LcList \/ LcVisit \/ LcCatch
  \/ StartCreate \/ CcMkdir \/ CcAccess \/ CcWrite \/ CcCatch
  \/ NextRun \/ EnvFfmpegChange

\* No command is running.
CliIdle ==
  /\ cpc = "shell"
  /\ runs = 0
  /\ ffmpeg = TRUE
  /\ videoDir = [id \in DemoIds |-> {}]
  /\ demos = [id \in DemoIds |-> "absent"]
  /\ ProcessInit

\* The helpers of one recording session, called one after another by the
\* demo script.
SessionInit == EngineInit /\ CliIdle
SpecEngine == SessionInit /\ [][EngineNext]_vars

\* The commands, with record() and the conversion; what the demo script does
\* inside run() is the session above.
CommandInit == CliInit /\ EngineInit
SpecCli == CommandInit /\ [][CliNext]_vars


(***************************************************************************)
(* The helpers: properties of SpecEngine.                                  *)
(***************************************************************************)
\* A step of the helper that is running.
HelperStep ==
  \/ HlEvaluate \/ HlWait \/ ZmEvaluate \/ ZmWait
  \/ TyClick \/ TyWait100 \/ TyKey \/ TyWait
  \/ MvQuery \/ MvBox \/ MvPos \/ updateCursorPosition \/ MvMouse \/ MvWait
  \/ CkHover \/ CkRipple \/ CkClick

\* C1: a call of highlight, clickAnimated, typeAnimated, moveTo or
\* zoomHighlight whose selector matches no element lets no exception out: the
\* helper goes on step by step until it has returned, and then the demo
\* script's next step can run.
C1_MissingSelectorReturnsNormally ==
  (call.helper \in Helpers /\ call.selector \notin dom) =>
     /\ ~raised
     /\ pc # "raised"
     /\ IF pc = "returned" THEN ENABLED Resume ELSE ENABLED HelperStep

\* clickAnimated('.missing') has returned: moveTo warned, the click timed
\* out and was caught.
C1_Witness ==
  /\ pc = "returned"
  /\ pageOpen
  /\ call.helper = "clickAnimated"
  /\ call.selector = ".missing"
  /\ warnings = <<"Element not found for moveTo", "Failed to click element">>

\* C2: when a helper call whose selector matches no element has returned,
\* the recorder's logger has received at least one warning during the call.
C2_MissingSelectorWarns ==
  (pc = "returned" /\ call.helper \in Helpers /\ call.selector \notin dom) =>
     Len(warnings) >= 1

\* C4: when a moveTo with steps >= 1 has run all its steps, the cursor
\* overlay and the real pointer are exactly at the center of the target.
C4_MoveEndsOnTarget ==
  (mv.steps >= 1 /\ mv.i = mv.steps + 1) =>
     /\ cursor.left = mv.targetX
     /\ cursor.top = mv.targetY
     /\ mouse.x = mv.targetX
     /\ mouse.y = mv.targetY

\* C9: every wait that typeAnimated issues after a typed character is at
\* least 10 ms long.
C9_TypeWaitAtLeast10 ==
  \A n \in 2..Len(trace) :
     (trace[n].op = "wait" /\ trace[n - 1].op = "key") =>
        trace[n].arg[1] >= 10 * trace[n].arg[2]

\* With delay 0 the drawn delay is below 10 ms and the wait after the first
\* character is exactly 10 ms.
C9_Witness ==
  /\ call.helper = "typeAnimated"
  /\ call.delay = 0
  /\ Len(trace) >= 4
  /\ trace[3].op = "key"
  /\ trace[4].op = "wait"
  /\ trace[4].arg = Ms(10)

\* the wait after a character lies in [delay - variation, delay + variation],
\* raised to 10 ms
InTypeRange(w) ==
  /\ w[2] = 1
  /\ w[1] >= Max(10, call.delay - call.variation)
  /\ w[1] <= Max(10, call.delay + call.variation)

\* C10: typeAnimated on a located element focuses it, waits, and then issues
\* one character-input call per character of the text, in text order, each
\* followed by one wait in [delay - variation, delay + variation] (raised to
\* 10 ms); a call that ran to its end has typed all n characters.
C10_TypesEachCharThenWaits ==
  call.helper = "typeAnimated" =>
    /\ k <= Len(call.text)
    /\ \A n \in 3..Len(trace) :
         IF n % 2 = 1
         THEN trace[n].op = "key" /\ trace[n].arg = call.text[(n - 1) \div 2]
         ELSE trace[n].op = "wait" /\ InTypeRange(trace[n].arg)
    /\ (pc = "ty_wait") => (Len(trace) = 1 + 2 * k)
    /\ (pc = "returned" /\ warnings = <<>>) => Len(trace) = 2 + 2 * Len(call.text)

\* typeAnimated('#input', 'hi'-like text, {delay: 50, variation: 20}) has
\* returned, and the two waits were drawn differently.
C10_Witness ==
  /\ pc = "returned"
  /\ call.helper = "typeAnimated"
  /\ call.delay = 50 /\ call.variation = 20
  /\ Len(call.text) = 2
  /\ warnings = <<>>
  /\ Len(trace) = 6
  /\ trace[4].arg # trace[6].arg

(***************************************************************************)
(* The commands and record(): properties of SpecCli.                       *)
(***************************************************************************)
\* C3: when record() has finished, by returning or by throwing from any
\* step, close() has been invoked on every browser and context it acquired
\* and the recorder's browser and context fields are null.
C3_RecordReleasesResources ==
  cpc = "rc_after_record" =>
     /\ browser = "null"
     /\ context = "null"
     /\ \A r \in acquired : closeCalls[r] >= 1

\* context.close() threw in the try block; cleanup closed the context again
\* and then the browser.
C3_Witness ==
  /\ cpc = "rc_after_record"
  /\ thrown = "context.close"
  /\ acquired = {"browser", "context"}
  /\ closeCalls = [browser |-> 1, context |-> 2]

\* The failures that end a command: every operation that threw, except a
\* demo file that listCommand could not load (printed with its error) and a
\* close() that failed inside cleanup (ignored).
FatalFaults == faults \ {"list.loadDemo", "cleanup.close"}

\* C5: a command ends with exit code 1 when one of its steps failed, and
\* with exit code 0 only when none did.
C5_ExitCodeTellsFailure ==
  cpc = "exited" => (exitCode = 1 <=> FatalFaults # {})

\* create --record: the file was written, the recording worked and the
\* conversion failed, so the process ends with exit code 1.
C5_Witness ==
  /\ cpc = "exited"
  /\ cmd.name = "create"
  /\ cmd.nested
  /\ "convertToMp4" \in faults
  /\ exitCode = 1

\* the steps of record() whose failure is fatal to the recording
RecordFaults ==
  {"launch", "newContext", "newPage", "goto", "hideDevTools", "initFakeCursor", "run",
   "finalWait", "context.close", "No video file found"}

\* C6: after a fatal error during the recording, record() gives no
\* RecordingResult, no conversion is started, 'Recording saved!' is not
\* printed, and the command ends with exit code 1.
C6_FatalRecordingError ==
  (faults \cap RecordFaults # {}) =>
     /\ ~result.ok
     /\ conversions = 0
     /\ \A n \in 1..Len(out) : out[n].op # "log" /\ out[n].op # "file"
     /\ cpc \notin {"rc_check2", "cv_spawn", "cv_close", "rc_report"}
     /\ cpc = "exited" => exitCode = 1

\* the context was closed, no .webm file was found, and the command is over
C6_Witness ==
  /\ cpc = "exited"
  /\ cmd.name = "record"
  /\ "No video file found" \in faults
  /\ closeCalls = [browser |-> 1, context |-> 1]
  /\ exitCode = 1

\* C7: with conversion requested and ffmpeg unavailable, the path that
\* recordCommand reports is the path record() returned, ending in .webm.
C7_FallbackReportsRawPath ==
  (cmd.convert /\ absent) =>
     /\ cpc = "rc_report" => finalPath = result.videoPath
     /\ \A n \in 1..Len(out) :
          out[n].op = "file" =>
             /\ out[n].arg = result.videoPath
             /\ out[n].arg.ext = "webm"

\* ffmpeg was missing at the second check, and the raw path was reported
C7_Witness ==
  /\ cpc = "exited"
  /\ cmd.convert
  /\ absent
  /\ exitCode = 0
  /\ out # <<>>
  /\ out[Len(out)].op = "file"

\* C8: whenever ffmpeg is unavailable at the time the conversion would
\* start, the command ends without exit code 1 and has printed the
\* 'FFmpeg not found' warning.
C8_AbsenceWarnedNotFatal ==
  (cpc = "exited" /\ cmd.convert /\ absent) =>
     /\ exitCode # 1
     /\ \E n \in 1..Len(out) :
          /\ out[n].op = "warn"
          /\ out[n].arg = "FFmpeg not found - video will be saved as WebM"

\* C12: highlight on a selector that matches no element adds no overlay and
\* returns without having waited.
C12_MissingHighlightDoesNotWait ==
  (pc = "returned" /\ call.helper = "highlight" /\ call.selector \notin dom) =>
     /\ created = <<>>
     /\ \A n \in 1..Len(trace) : trace[n].op # "wait"

(***************************************************************************)
(* moveTo and clickAnimated step by step: properties of SpecEngine.        *)
(***************************************************************************)
\* the n-th page call of a moveTo: updateCursorPosition, mouse.move with the
\* same (x, y), waitForTimeout(duration / steps), and so on
IsMoveCall(n, wait) ==
  IF n % 3 = 1 THEN trace[n].op = "cursor"
  ELSE IF n % 3 = 2 THEN trace[n].op = "mouse" /\ trace[n].arg = trace[n - 1].arg
  ELSE trace[n].op = "wait" /\ trace[n].arg = wait

C14_ClickAfterMoveHoverRipple ==
  call.helper = "clickAnimated" =>
    \A n \in 1..Len(trace) :
       trace[n].op = "click" =>
          /\ n = 3 * mv.steps + 3
          /\ n = Len(trace)
          /\ mv.steps = DefaultSteps
          /\ mv.i = mv.steps + 1
          /\ \A m \in 1..(3 * mv.steps) : IsMoveCall(m, Quot(call.moveDuration, mv.steps))
          /\ trace[n - 2] = Event("wait", Ms(call.hoverDuration))
          /\ trace[n - 1].op = "ripple" /\ trace[n - 1].arg = call.selector
          /\ created = <<"ripple">>

\* clickAnimated('#input') with the default durations has clicked.
C14_Witness ==
  /\ pc = "returned"
  /\ call.helper = "clickAnimated"
  /\ call.selector = "#input"
  /\ call.moveDuration = 400 /\ call.hoverDuration = 200
  /\ warnings = <<>>
  /\ Len(trace) = 63
  /\ trace[63].op = "click"
  /\ trace[60].arg = Ms(20)

\* C16: a moveTo starts its interpolation where the last moveTo that ran all
\* its steps ended, and at (100, 100) when there was none in the session.
C16_MoveStartsWhereLastEnded ==
  (pc = "mv_cursor" /\ mv.i = 1) =>
     /\ mv.fromX = IF lastMove.moved THEN lastMove.x ELSE FromInt(DefaultCursor)
     /\ mv.fromY = IF lastMove.moved THEN lastMove.y ELSE FromInt(DefaultCursor)

OfKind(kind) == {n \in 1..Len(overlays) : overlays[n].kind = kind}

\* C18: when highlight on an element that was found returns from its wait,
\* the document holds no highlight overlay any more.
C18_HighlightGoneAtReturn ==
  (pc = "returned" /\ call.helper = "highlight" /\ created = <<"highlight">>
     /\ warnings = <<>>) =>
     OfKind("highlight") = {}

\* C19: with the helpers called one after another, the document never holds
\* two highlight overlays, two ripple overlays or two zoom overlays.
C19_OneOverlayPerKind ==
  \A kind \in {"highlight", "ripple", "zoom"} : Cardinality(OfKind(kind)) <= 1

\* v lies between a and b, the ends included
Between(v, a, b) == (FLeq(a, v) /\ FLeq(v, b)) \/ (FLeq(b, v) /\ FLeq(v, a))
\* the eased value of step i
EasedAt(i) == Eased(Progress(i, mv.steps))

\* C20: at every step i of a moveTo the eased value lies in [0, 1] and is not
\* below that of step i - 1, and each coordinate written lies between the
\* start and the target, and between the coordinate of step i - 1 and the
\* target.
C20_EasedMonotoneNoOvershoot ==
  (pc = "mv_mouse") =>
     /\ FLeq(FZero, EasedAt(mv.i)) /\ FLeq(EasedAt(mv.i), FOne)
     /\ mv.i > 1 => FLeq(EasedAt(mv.i - 1), EasedAt(mv.i))
     /\ Between(mv.x, mv.fromX, mv.targetX)
     /\ Between(mv.y, mv.fromY, mv.targetY)
     /\ mv.i > 1 =>
          /\ Between(mv.x, Interpolate(mv.fromX, mv.targetX, EasedAt(mv.i - 1)), mv.targetX)
          /\ Between(mv.y, Interpolate(mv.fromY, mv.targetY, EasedAt(mv.i - 1)), mv.targetY)

(***************************************************************************)
(* The order of record() and the options of recordCommand: properties of   *)
(* SpecCli.                                                                *)
(***************************************************************************)
\* the places of the calls of `op` in this run
CallsOf(op) == {n \in 1..Len(calls) : calls[n].op = op}

\* C13: record() invokes initFakeCursor at most once; demo.run is invoked
\* only after that one invocation has succeeded, and never after it failed.
C13_CursorInitOnceBeforeRun ==
  /\ Cardinality(CallsOf("initFakeCursor")) <= 1
  /\ (cpc = "r_run" \/ CallsOf("run") # {}) =>
        /\ Cardinality(CallsOf("initFakeCursor")) = 1
        /\ \A n \in CallsOf("initFakeCursor") : calls[n].ok
  /\ \A r \in CallsOf("run") : \E n \in CallsOf("initFakeCursor") : n < r
  /\ (\E n \in CallsOf("initFakeCursor") : ~calls[n].ok) =>
        (CallsOf("run") = {} /\ cpc # "r_run")

\* a whole recording: the cursor was set up, the demo ran, the video was saved
C13_Witness ==
  /\ cpc = "exited"
  /\ exitCode = 0
  /\ result.ok
  /\ \E n \in CallsOf("initFakeCursor"), r \in CallsOf("run") :
       n < r /\ calls[n].ok /\ calls[r].ok

\* C15: recordCommand with options.convert = false spawns ffmpeg neither for
\* the check nor for the conversion, and the path it reports is the path
\* record() returned.
C15_NoConvertNoFfmpeg ==
  (cmd.name = "record" /\ ~cmd.convert) =>
     /\ CallsOf("checkFfmpegInstalled") = {}
     /\ CallsOf("spawn ffmpeg") = {}
     /\ conversions = 0
     /\ cpc = "rc_report" => finalPath = result.videoPath
     /\ \A n \in 1..Len(out) : out[n].op = "file" => out[n].arg = result.videoPath

\* record --no-convert has saved its video and reported the .webm file
C15_Witness ==
  /\ cpc = "exited"
  /\ cmd.name = "record"
  /\ ~cmd.convert
  /\ result.ok
  /\ out # <<>>
  /\ out[Len(out)] = Event("file", result.videoPath)
  /\ result.videoPath.ext = "webm"

\* C21: the videoPath that record() returns names the .webm file that this
\* session's own context close wrote into <output>/<demo id>, never a .webm
\* file that an earlier recording of the same demo left there.
C21_VideoPathOfThisSession ==
  result.ok => result.videoPath = File(runs, "webm")

\* the first call of `op` in this run was made and succeeded
FirstSucceeded(op) ==
  /\ CallsOf(op) # {}
  /\ \A n \in CallsOf(op) : (\A m \in CallsOf(op) : n <= m) => calls[n].ok

\* C22: in record(), the video file is looked up only after a close() of the
\* context has succeeded; every close() of the context comes before the
\* close() of the browser; close() is invoked at most once on the browser;
\* and when the first close() of the context succeeded it is the only one
\* (cleanup does not close the context again).
C22_CloseOrderAndCounts ==
  /\ \A f \in CallsOf("findRecordedVideo") :
       \E c \in CallsOf("context.close") : c < f /\ calls[c].ok
  /\ cpc = "r_find" => \E c \in CallsOf("context.close") : calls[c].ok
  /\ \A b \in CallsOf("browser.close") :
       /\ \A c \in CallsOf("context.close") : c < b
       /\ "context" \in acquired => CallsOf("context.close") # {}
  /\ Cardinality(CallsOf("browser.close")) <= 1
  /\ closeCalls.browser = Cardinality(CallsOf("browser.close"))
  /\ closeCalls.context = Cardinality(CallsOf("context.close"))
  /\ FirstSucceeded("context.close") => closeCalls.context = 1

\* record() has returned a video: the context was closed once, with success,
\* then the file was looked up, then the browser was closed
C22_Witness ==
  /\ cpc = "rc_after_record"
  /\ result.ok
  /\ \E c \in CallsOf("context.close"), f \in CallsOf("findRecordedVideo"),
        b \in CallsOf("browser.close") : c < f /\ f < b /\ calls[c].ok
  /\ closeCalls = [browser |-> 1, context |-> 1]

\* the lines that listCommand printed for the files it has visited
Listing == SubSeq(out, 2, Len(out))

\* C23: in listCommand a demo file that fails to load does not stop the
\* listing: the files that listDemos found are visited one by one in the
\* order found, each exactly once; each visit prints the file with its
\* id/name/url or with its load error; and when listDemos itself succeeded
\* the command never ends with exit code 1.
C23_ListVisitsEveryFile ==
  /\ [](cmd.name = "list" /\ cpc \in {"lc_visit", "exited"}
          /\ "listDemos" \notin faults =>
          /\ listDemos(visited \o todo)
          /\ exitCode = 0
          /\ cpc = "exited" => todo = <<>>
          /\ visited # <<>> =>
               /\ Len(Listing) = Len(visited)
               /\ \A n \in 1..Len(visited) :
                    /\ Listing[n].arg = visited[n]
                    /\ Listing[n].op \in {"demo", "demo error"})
  /\ [][cmd.name = "list" /\ cpc = "lc_visit" =>
          /\ visited' \o todo' = visited \o todo
          /\ Len(visited') = Len(visited) + 1]_<<visited, todo>>

\* two files were found, the first failed to load, the second was listed
C23_Witness ==
  /\ cmd.name = "list"
  /\ cpc = "exited"
  /\ exitCode = 0
  /\ Len(visited) = 2
  /\ "list.loadDemo" \in faults
  /\ Listing[1].op = "demo error"
  /\ Listing[2].op = "demo"

\* createCommand has printed that it created the file
SaidCreated == \E n \in 1..Len(out) : out[n].arg = "Created demo"

\* C24: createCommand never overwrites an existing demo file: when
\* <dir>/<id>.demo.ts exists at the access check the command ends there with
\* exit code 1, no step of the command changes the content of a file that
\* exists, no template is written and, also with --record, no recording is
\* started.
C24_CreateNeverOverwrites ==
  /\ [][cmd.name = "create" /\ cpc = "cc_access" /\ demos[cmd.id] # "absent" =>
          /\ cpc' = "exited"
          /\ exitCode' = 1
          /\ "exists" \in faults']_cpc
  /\ [][cmd.name = "create" /\ demos[cmd.id] # "absent" => demos' = demos]_vars
  /\ [](cmd.name = "create" /\ "exists" \in faults =>
          /\ cpc = "exited"
          /\ exitCode = 1
          /\ ~SaidCreated
          /\ ~cmd.nested
          /\ calls = <<>>
          /\ acquired = {}
          /\ result = NoResult)

\* create --record on an id whose file the user wrote: refused, file as it was
C24_Witness ==
  /\ cmd.name = "create"
  /\ cmd.record
  /\ cpc = "exited"
  /\ exitCode = 1
  /\ "exists" \in faults
  /\ demos[cmd.id] = "user"

====
